---- MODULE Spec2Model ----
(***************************************************************************)
(* Model of youtube-remote-upload: the top-level script                    *)
(* (src/youtube-remote-upload.js) and the YoutubeAPI class                 *)
(* (src/scripts/youtubeAPI.js).  One process runs per program start; the   *)
(* Secret Store (keytar) survives from one run to the next.  The remote    *)
(* service, the browser callback and the user are the environment: their   *)
(* answers are drawn nondeterministically from small sets.                 *)
(***************************************************************************)
EXTENDS Integers, Sequences, FiniteSets, TLC

VARIABLES
    caseSensitive,   \* platform: does the Secret Store tell service names apart by case
    store,           \* Secret Store: service key -> refresh token or NULL
    run,             \* number of the current program run
    pc,              \* position of the run in the script
    failure,         \* the error that ended the run, NULL while none
    ev,              \* outcome of the step just taken
    readToken,       \* const refreshToken read at process start (line 15)
    refreshToken,    \* this.refreshToken
    credentials,     \* refresh token set on #oauth2Client
    youTubeAPI,      \* is the private field #youTubeAPI set
    youtubeApi,      \* is the public property this.youtubeApi set
    silentResult,    \* answer of refreshAccessToken in this run
    authorizeCalls,  \* calls of #authorize made by init() in this run
    savedThisRun,    \* token this run wrote with keytar.setPassword, NULL if none
    prevSaved,       \* token the previous run wrote, NULL if none
    serverListening, \* is a listener of this run bound to port 3000
    promise,         \* state of the promise getAuthToken returned
    authToken,       \* authorization code doOAuth holds
    tokens,          \* refresh token of the last code exchange
    grantScopes,     \* scopes of the grant behind the last code exchange
    tokeninfo,       \* outcome of the tokeninfo lookup of the last exchange
    rounds,          \* doOAuth invocations in this run
    id,              \* video id returned by videos.insert
    timeLeftMs,      \* parameter of the current checkVideoProcessing call
    curWait,         \* delay of the timer of the current video-status iteration
    prevWait,        \* delay of the timer of the preceding video-status iteration
    videoResp,       \* last status response of the video-status loop
    iter,            \* video-status iterations started
    polls,           \* poll iterations (both loops) started in this run
    spinner,         \* loadingText interval: "off", "running", "cancelled"
    cancels,         \* calls of cancelAnimation
    sawSucceeded,    \* a status query reported processingStatus 'succeeded'
    thumbGetOk,      \* a GET of the thumbnail URL returned a success response
    thumbDone,       \* the thumbnail loop has ended
    listCalls,       \* videos.list requests made
    getCalls,        \* thumbnail GETs made
    insertCalls,     \* videos.insert requests made
    redoCause,       \* what sent the flow to redoConsent last, NULL if nothing
    rejects,         \* rejected callback waits in this run
    exchangeLog,     \* code exchanges of this run: tokens and validation result
    responded,       \* response the request that settled the promise was given
    videoDetails,    \* metadata the caller passes to uploadVideo
    defaults,        \* content of uploadDefaults.json as read by createDetailsObject
    detailsObj,      \* result of createDetailsObject
    fileSize,        \* fs.statSync(fileName).size
    bytesRead,       \* evt.bytesRead of the last progress event
    progress,        \* percentage the last progress event wrote
    thumbQueries     \* status queries made by the thumbnail loop

vars == <<caseSensitive, store, run, pc, failure, ev, readToken, refreshToken,
          credentials, youTubeAPI, youtubeApi, silentResult, authorizeCalls,
          savedThisRun, prevSaved, serverListening, promise, authToken, tokens,
          grantScopes, tokeninfo, rounds, id, timeLeftMs, curWait, prevWait,
          videoResp, iter, polls, spinner, cancels, sawSucceeded, thumbGetOk,
          thumbDone, listCalls, getCalls, insertCalls, redoCause, rejects,
          exchangeLog, responded, videoDetails, defaults, detailsObj, fileSize,
          bytesRead, progress, thumbQueries>>

storeVars   == <<caseSensitive, store, savedThisRun, prevSaved, run>>
sessVars    == <<readToken, refreshToken, credentials, youTubeAPI, youtubeApi,
                 silentResult, authorizeCalls>>
consentVars == <<serverListening, promise, authToken, tokens, grantScopes,
                 tokeninfo, rounds>>
consentHist == <<redoCause, rejects, exchangeLog, responded>>
uploadVars  == <<videoDetails, defaults, detailsObj, fileSize, bytesRead,
                 progress>>
pollVars    == <<id, timeLeftMs, curWait, prevWait, videoResp, iter, polls,
                 spinner, cancels, sawSucceeded, thumbGetOk, thumbDone,
                 listCalls, getCalls, insertCalls, thumbQueries>>

----------------------------------------------------------------------------
(* Bounds of the model *)
MaxRuns   == 2    \* program runs
MaxRounds == 3    \* doOAuth invocations per run
MaxPolls  == 4    \* poll iterations per run
MaxFileSize == 2  \* bytes of the uploaded file

(* Values *)
NULL == "null"
Tokens == {"rt1", "rt2"}

\* keytar.getPassword('YouTubeRemoteUpload', ...) and
\* keytar.setPassword('youTubeRemoteUpload', ...)
ReadService  == "YouTubeRemoteUpload"
WriteService == "youTubeRemoteUpload"
Fold(name) == "youtuberemoteupload"
StoreKeys == {ReadService, WriteService, Fold(ReadService)}

\* The entry of the Secret Store a service name selects on this platform.
StoreKey(name) == IF caseSensitive THEN name ELSE Fold(name)

\* Truthiness of this.refreshToken in init()
Truthy(t) == t # NULL

\* #isValid with a changed test: only a rejection counts as invalid.
IsValidUnlessRejected(result) == result # "rejected"

\* #isValid, lines 343-353: refreshAccessToken's callback got no error
IsValid(result) == result = "accepted"

----------------------------------------------------------------------------
(* Metadata documents.  A section holds, for each key, the key's value or
   ABSENT when the section has no such key; a section that is undefined has
   no keys, the same as {} under the spread operator. *)
ABSENT == "absent"
Keys == {"title", "description"}
Values == {"v1", "v2"}
Sections == [Keys -> Values \cup {ABSENT}]
Documents == [snippet : Sections, status : Sections]
NoSection == [k \in Keys |-> ABSENT]
NoDocument == [snippet |-> NoSection, status |-> NoSection]

\* What the script passes, lines 78-83: a snippet with title and description
\* and no status.
ScriptDetails ==
    {[snippet |-> [k \in Keys |-> IF k = "title" THEN t ELSE "v1"],
      status |-> NoSection] : t \in Values}

\* Contents of uploadDefaults.json the model reads in a run.
DefaultsFiles ==
    {[snippet |-> [k \in Keys |-> IF k = "title" THEN ABSENT ELSE "v2"],
      status |-> [k \in Keys |-> "v1"]],
     [snippet |-> [k \in Keys |-> "v2"], status |-> NoSection]}

\* Lines 197-198 with the spreads in the other order: the defaults win.
MergeSectionDefaultsWin(base, over) ==
    [k \in Keys |-> IF base[k] # ABSENT THEN base[k] ELSE over[k]]

\* {...base, ...over}, lines 197-198: the keys of over replace those of base.
MergeSection(base, over) ==
    [k \in Keys |-> IF over[k] # ABSENT THEN over[k] ELSE base[k]]

\* createDetailsObject, lines 193-200
CreateDetailsObject(defaultsDoc, userDefined) ==
    [snippet |-> MergeSection(defaultsDoc.snippet, userDefined.snippet),
     status  |-> MergeSection(defaultsDoc.status, userDefined.status)]

(* Progress percentage, line 93.  A JavaScript number is a finite value, NaN
   or Infinity. *)
NoProgress == [kind |-> "none", v |-> 0]
Finite(n) == [kind |-> "num", v |-> n]

\* Math.round((evt.bytesRead / fileSize) * 100), line 93: 0/0 is NaN, n/0 is
\* Infinity, and Math.round rounds halves up.
Progress(bytes, size) ==
    IF size = 0
      THEN IF bytes = 0 THEN [kind |-> "NaN", v |-> 0]
           ELSE [kind |-> "Infinity", v |-> 0]
      ELSE Finite((200 * bytes + size) \div (2 * size))

Terminal == {"done", "failed", "crashed"}

\* The fields and locals of a process that has just started, the metadata
\* documents apart.
FieldsStart ==
    /\ readToken = NULL /\ refreshToken = NULL /\ credentials = NULL
    /\ youTubeAPI = FALSE /\ youtubeApi = FALSE
    /\ silentResult = NULL /\ authorizeCalls = 0 /\ savedThisRun = NULL
    /\ serverListening = FALSE /\ promise = "none" /\ authToken = NULL
    /\ tokens = NULL /\ grantScopes = {} /\ tokeninfo = NULL /\ rounds = 0
    /\ id = NULL
    /\ timeLeftMs = [t |-> "none", n |-> 0, s |-> ""]
    /\ curWait = 0 /\ prevWait = 0
    /\ videoResp = [item |-> FALSE, status |-> NULL, hasTimeLeft |-> FALSE, timeLeft |-> 0]
    /\ iter = 0 /\ polls = 0 /\ spinner = "off" /\ cancels = 0
    /\ sawSucceeded = FALSE /\ thumbGetOk = FALSE /\ thumbDone = FALSE
    /\ listCalls = 0 /\ getCalls = 0 /\ insertCalls = 0
    /\ failure = NULL
    /\ redoCause = NULL /\ rejects = 0 /\ exchangeLog = <<>>
    /\ responded = "none"
    /\ fileSize = 0 /\ bytesRead = 0 /\ progress = NoProgress
    /\ thumbQueries = 0

\* The state of a process that has just started.
ProgramStart ==
    /\ pc = "start"
    /\ FieldsStart
    /\ videoDetails = NoDocument /\ defaults = NoDocument
    /\ detailsObj = NoDocument

\* The same, of the next state.
ProgramStarted ==
    /\ pc' = "start"
    /\ readToken' = NULL /\ refreshToken' = NULL /\ credentials' = NULL
    /\ youTubeAPI' = FALSE /\ youtubeApi' = FALSE
    /\ silentResult' = NULL /\ authorizeCalls' = 0 /\ savedThisRun' = NULL
    /\ serverListening' = FALSE /\ promise' = "none" /\ authToken' = NULL
    /\ tokens' = NULL /\ grantScopes' = {} /\ tokeninfo' = NULL /\ rounds' = 0
    /\ id' = NULL
    /\ timeLeftMs' = [t |-> "none", n |-> 0, s |-> ""]
    /\ curWait' = 0 /\ prevWait' = 0
    /\ videoResp' = [item |-> FALSE, status |-> NULL, hasTimeLeft |-> FALSE, timeLeft |-> 0]
    /\ iter' = 0 /\ polls' = 0 /\ spinner' = "off" /\ cancels' = 0
    /\ sawSucceeded' = FALSE /\ thumbGetOk' = FALSE /\ thumbDone' = FALSE
    /\ listCalls' = 0 /\ getCalls' = 0 /\ insertCalls' = 0
    /\ failure' = NULL
    /\ redoCause' = NULL /\ rejects' = 0 /\ exchangeLog' = <<>>
    /\ responded' = "none"
    /\ videoDetails' = NoDocument /\ defaults' = NoDocument
    /\ detailsObj' = NoDocument
    /\ fileSize' = 0 /\ bytesRead' = 0 /\ progress' = NoProgress
    /\ thumbQueries' = 0

Init ==
    /\ caseSensitive \in BOOLEAN
    /\ \E t \in Tokens \cup {NULL} :
         store = [k \in StoreKeys |-> IF k = StoreKey(ReadService) THEN t ELSE NULL]
    /\ run = 1
    /\ prevSaved = NULL
    /\ ev = "start"
    /\ ProgramStart

\* Lines 15-21: read the stored token and construct YoutubeAPI with it.
GetPassword ==
    /\ pc = "start"
    /\ readToken' = store[StoreKey(ReadService)]
    /\ refreshToken' = store[StoreKey(ReadService)]
    /\ pc' = "init"
    /\ ev' = "constructed"
    /\ UNCHANGED <<consentHist, uploadVars, storeVars, failure, credentials, youTubeAPI, youtubeApi,
                   silentResult, authorizeCalls, consentVars, pollVars>>

\* init(), lines 42-47 and 56-58: with a token, set it on the client and ask
\* #isValid; without one, call #authorize.
InitBegin ==
    /\ pc = "init"
    /\ IF Truthy(refreshToken)
         THEN /\ credentials' = refreshToken
              /\ pc' = "is_valid"
              /\ ev' = "silent_check"
              /\ UNCHANGED authorizeCalls
         ELSE /\ authorizeCalls' = authorizeCalls + 1
              /\ pc' = "authorize"
              /\ ev' = "authorize_called"
              /\ UNCHANGED credentials
    /\ UNCHANGED <<consentHist, uploadVars, storeVars, failure, readToken, refreshToken, youTubeAPI,
                   youtubeApi, silentResult, consentVars, pollVars>>

\* init(), lines 47-54, with #isValid (lines 343-353): the remote accepts the
\* token, rejects it, or the request fails.
IsValidResolved ==
    /\ pc = "is_valid"
    /\ \E result \in {"accepted", "rejected", "network_error"} :
         /\ silentResult' = result
         /\ IF IsValid(result)
              THEN /\ youTubeAPI' = TRUE
                   /\ pc' = "init_done"
                   /\ ev' = "init_returned"
                   /\ UNCHANGED authorizeCalls
              ELSE /\ authorizeCalls' = authorizeCalls + 1
                   /\ pc' = "authorize"
                   /\ ev' = "authorize_called"
                   /\ UNCHANGED youTubeAPI
    /\ UNCHANGED <<consentHist, uploadVars, storeVars, failure, readToken, refreshToken, credentials,
                   youtubeApi, consentVars, pollVars>>

----------------------------------------------------------------------------
(* Consent Flow: #authorize, lines 218-335 *)

\* The two scopes generateAuthUrl asks for (line 238), and one it does not.
RequiredScopes == {"youtube.upload", "youtube.force-ssl"}
ScopeUniverse == RequiredScopes \cup {"youtube.readonly"}

RECURSIVE SetToSeq(_)
SetToSeq(S) ==
    IF S = {} THEN <<>>
    ELSE LET x == CHOOSE y \in S : TRUE IN <<x>> \o SetToSeq(S \ {x})

\* data.scope of the tokeninfo response: the granted scopes, space separated
\* (modelled as the sequence of its words).
ScopeField(granted) == SetToSeq(granted)

\* data.scope.split(" "), line 316: the empty string splits into [""].
Split(words) == IF words = <<>> THEN <<"">> ELSE words

\* Line 317: if (scopes.length < 2) return redoConsent()
TooFewScopes(scopes) == Len(scopes) < 2

\* A request reaching the local listener: does its url contain
\* /oauth2callback, does its query carry code, error, and does its Host header
\* make new URL(req.url, `http://${req.headers.host}`) throw.
Requests == [path : BOOLEAN, code : BOOLEAN, error : BOOLEAN, badHost : BOOLEAN]

\* Request handler, lines 254-274: the handler throws (line 256).
Throws(req) == req.path /\ req.badHost

\* Request handler, lines 260-270: server.close() is called.
Closes(req) == req.path /\ ~req.badHost /\ (req.code \/ req.error)

\* Request handler, lines 260-273: the first resolve or reject settles the
\* promise; later ones change nothing.
Settle(p, req) ==
    IF p # "pending" THEN p
    ELSE IF ~req.path THEN p
    ELSE IF req.badHost THEN "threw"
    ELSE IF req.code THEN "code"
    ELSE IF req.error THEN "error"
    ELSE p

\* #authorize, lines 219-226: explain, wait for Enter.
Authorize ==
    /\ pc = "authorize"
    /\ pc' = "do_oauth"
    /\ ev' = "user_ack"
    /\ UNCHANGED <<consentHist, uploadVars, storeVars, failure, sessVars, consentVars, pollVars>>

\* Request handler, lines 261 and 267: the page the request is answered with;
\* the first res.end() is the one that is sent.
ResponseTo(req) ==
    IF ~req.path \/ req.badHost THEN "none"
    ELSE IF req.code THEN "successful"
    ELSE IF req.error THEN "canceled"
    ELSE "none"

\* doOAuth, lines 233-240 and getAuthToken, lines 251-253, 275-278: build the
\* consent URL, bind a listener to port 3000 and open the URL.  Binding while
\* an earlier listener of this process holds the port emits an unhandled
\* 'error' event (EADDRINUSE), which ends the process.
DoOAuth ==
    /\ pc = "do_oauth"
    /\ rounds < MaxRounds
    /\ rounds' = rounds + 1
    /\ IF serverListening
         THEN /\ pc' = "crashed"
              /\ failure' = "EADDRINUSE"
              /\ ev' = "bind_failed"
              /\ UNCHANGED <<serverListening, promise, responded>>
         ELSE /\ serverListening' = TRUE
              /\ promise' = "pending"
              /\ responded' = "none"
              /\ pc' = "await_callback"
              /\ ev' = "listening"
              /\ UNCHANGED failure
    /\ UNCHANGED <<uploadVars, storeVars, sessVars, authToken, tokens, grantScopes,
                   tokeninfo, pollVars, redoCause, rejects, exchangeLog>>

\* Request handler, lines 253-274, run for one request to a bound listener.
CallbackRequest ==
    /\ serverListening
    /\ pc \notin Terminal
    /\ \E req \in Requests :
         /\ promise' = Settle(promise, req)
         /\ serverListening' = ~Closes(req)
         /\ responded' = IF promise = "pending" /\ Settle(promise, req) # "pending"
                           THEN ResponseTo(req) ELSE responded
         /\ ev' = IF Throws(req) THEN "handler_threw"
                  ELSE IF Closes(req) THEN "handler_closed"
                  ELSE "handler_ignored"
    /\ UNCHANGED <<uploadVars, storeVars, pc, failure, sessVars, authToken, tokens,
                   grantScopes, tokeninfo, rounds, pollVars, redoCause,
                   rejects, exchangeLog>>

\* Lines 299-303 without the try/catch: a rejected wait ends the flow.
AfterCallbackUncaught(p) == IF p = "code" THEN "get_token" ELSE "failed"

\* doOAuth, lines 299-303: where the flow goes once the wait has ended: a code
\* is exchanged, any rejection is caught and answered with redoConsent().
AfterCallback(p) == IF p = "code" THEN "get_token" ELSE "redo_consent"

\* doOAuth, lines 299-303: the awaited promise has settled.
GetAuthTokenSettled ==
    /\ pc = "await_callback"
    /\ promise # "pending"
    /\ pc' = AfterCallback(promise)
    /\ IF promise = "code"
         THEN /\ authToken' = "code"
              /\ ev' = "got_code"
              /\ UNCHANGED <<rejects, redoCause>>
         ELSE /\ ev' = "callback_rejected"
              /\ rejects' = rejects + 1
              /\ redoCause' = IF promise = "error" THEN "cancelled" ELSE "threw"
              /\ UNCHANGED authToken
    /\ UNCHANGED <<uploadVars, storeVars, failure, sessVars, serverListening, promise,
                   tokens, grantScopes, tokeninfo, rounds, pollVars,
                   exchangeLog, responded>>

\* redoConsent, lines 283-293: message, wait for Enter, call doOAuth again.
RedoConsent ==
    /\ pc = "redo_consent"
    /\ pc' = "do_oauth"
    /\ ev' = "reprompted"
    /\ UNCHANGED <<consentHist, uploadVars, storeVars, failure, sessVars, consentVars, pollVars>>

\* Line 306 inside a try/catch that asks for consent again.
AfterExchangeErrorRetried == "redo_consent"

\* doOAuth, line 306: an exception of getToken is caught nowhere in doOAuth,
\* #authorize or init(): the run ends with it.
AfterExchangeError == "failed"

\* doOAuth, line 306: exchange the code for tokens; a failure propagates out
\* of #authorize and init() and ends the run.
GetToken ==
    /\ pc = "get_token"
    /\ \/ \E t \in Tokens, granted \in SUBSET ScopeUniverse :
            /\ tokens' = t
            /\ grantScopes' = granted
            /\ exchangeLog' = Append(exchangeLog, [tokens |-> t, validation |-> "pending"])
            /\ pc' = "validate_scopes"
            /\ ev' = "exchanged"
            /\ UNCHANGED failure
       \/ /\ pc' = AfterExchangeError
          /\ failure' = "getToken_error"
          /\ ev' = "exchange_failed"
          /\ UNCHANGED <<tokens, grantScopes, exchangeLog>>
    /\ UNCHANGED <<uploadVars, storeVars, sessVars, serverListening, promise, authToken,
                   tokeninfo, rounds, pollVars, redoCause, rejects, responded>>

\* Lines 312-322 without the catch: a failed lookup ends the flow.
AfterValidationUncaught(outcome, scopes) ==
    IF outcome # "ok" THEN "failed"
    ELSE IF TooFewScopes(scopes) THEN "redo_consent"
    ELSE "authorize_finish"

\* doOAuth, lines 312-324: where the flow goes after the lookup: with fewer
\* than two entries redoConsent() is returned; otherwise, and after an
\* exception (caught and logged at lines 320-322), tokens is returned.
AfterValidation(outcome, scopes) ==
    IF outcome = "ok" /\ TooFewScopes(scopes) THEN "redo_consent"
    ELSE "authorize_finish"

\* doOAuth, lines 312-324: look the granted scopes up; fewer than two entries
\* restart the flow, an exception (the fetch failing, a body without a scope
\* field) is logged and the tokens are returned.
ValidateScopes ==
    /\ pc = "validate_scopes"
    /\ \E outcome \in {"ok", "network_error", "bad_body"} :
         LET next == AfterValidation(outcome, Split(ScopeField(grantScopes))) IN
         /\ tokeninfo' = outcome
         /\ pc' = next
         /\ ev' = IF next = "redo_consent" THEN "too_few_scopes" ELSE "oauth_returned"
         /\ redoCause' = IF next = "redo_consent" THEN "too_few_scopes" ELSE redoCause
         /\ exchangeLog' =
              [exchangeLog EXCEPT ![Len(exchangeLog)].validation =
                  IF next = "redo_consent" THEN "too_few"
                  ELSE IF outcome = "ok" THEN "passed" ELSE "skipped"]
    /\ UNCHANGED <<uploadVars, storeVars, failure, sessVars, serverListening, promise,
                   authToken, tokens, grantScopes, rounds, pollVars, rejects,
                   responded>>

\* The value the outermost doOAuth() resolves to if a frame that called
\* redoConsent() returned its own tokens.
DoOAuthResultOuter == exchangeLog[1].tokens

\* doOAuth, lines 292, 302, 318 and 324: every frame returns either its own
\* tokens or what redoConsent() returns, so the outermost call resolves to the
\* tokens of the last exchange.
DoOAuthResult == exchangeLog[Len(exchangeLog)].tokens

\* #authorize, lines 327-335: set the credentials and the refresh token, and
\* assign the API object to this.youtubeApi.
AuthorizeFinish ==
    /\ pc = "authorize_finish"
    /\ credentials' = DoOAuthResult
    /\ refreshToken' = DoOAuthResult
    /\ youtubeApi' = TRUE
    /\ pc' = "init_done"
    /\ ev' = "init_returned"
    /\ UNCHANGED <<consentHist, uploadVars, storeVars, failure, readToken, youTubeAPI, silentResult,
                   authorizeCalls, consentVars, pollVars>>

\* Line 24: keytar.setPassword('youTubeRemoteUpload', 'refreshToken', ...)
SetPassword ==
    /\ pc = "init_done"
    /\ store' = [store EXCEPT ![StoreKey(WriteService)] = refreshToken]
    /\ savedThisRun' = refreshToken
    /\ pc' = "prompt"
    /\ ev' = "saved"
    /\ UNCHANGED <<consentHist, uploadVars, caseSensitive, prevSaved, run, failure, sessVars,
                   consentVars, pollVars>>

----------------------------------------------------------------------------
(* uploadVideo, lines 66-211 *)

Ids == {"dQw4w9WgXcQ", "00000004000"}

\* JavaScript values a timer delay can be given: a number or a string.
Num(n) == [t |-> "num", n |-> n, s |-> ""]
Str(s) == [t |-> "str", n |-> 0, s |-> s]

\* processing's default parameter, line 119
DefaultTimeLeftMs == 3000
\* Largest delay setTimeout accepts
TIMEOUT_MAX == 2147483647

\* Number(s) of a string: a string of digits is its value, any other is NaN.
IsNumeric(s) == s = "00000004000"
NumericValue(s) == IF s = "00000004000" THEN 4000 ELSE 0

\* setTimeout(resolve, v), line 159: the delay is coerced to a number, and a
\* value that is not a number from 1 to TIMEOUT_MAX becomes 1.
TimerDelay(v) ==
    LET isNumber == v.t = "num" \/ (v.t = "str" /\ IsNumeric(v.s))
        after == IF v.t = "num" THEN v.n ELSE NumericValue(v.s)
    IN IF isNumber /\ after >= 1 /\ after <= TIMEOUT_MAX THEN after ELSE 1

\* Status responses of videos.list: items[0] present or not, its
\* processingStatus, and processingProgress.timeLeftMs present or not.
TimeLeftValues == {2000, 7000}
VideoResponses ==
    {[item |-> FALSE, status |-> "none", hasTimeLeft |-> FALSE, timeLeft |-> 0]}
    \cup [item : {TRUE}, status : {"processing", "succeeded", "failed"},
          hasTimeLeft : {FALSE}, timeLeft : {0}]
    \cup [item : {TRUE}, status : {"processing", "succeeded", "failed"},
          hasTimeLeft : {TRUE}, timeLeft : TimeLeftValues]

\* Line 169 with a changed test: any status but 'processing' ends the loop.
VideoNotProcessing(video) == video.status # "processing"

\* Line 169: video?.processingDetails?.processingStatus === 'succeeded'
VideoSucceeded(video) == video.item /\ video.status = "succeeded"

\* Line 178: video?....?.timeLeftMs || timeLeftMs
NewTimeLeftMs(video, previous) ==
    IF video.item /\ video.hasTimeLeft /\ video.timeLeft # 0
      THEN Num(video.timeLeft) ELSE previous

\* Line 179: checkVideoProcessing(id, newTimeLeftMs), the arguments as passed.
RecursiveCallArgs(video, previous) == <<Str(id), NewTimeLeftMs(video, previous)>>

\* Line 158: checkVideoProcessing = async timeLeftMs => ..., the parameter is
\* the first argument.
BindParameter(args) == args[1]

\* Line 139 with a changed test: every response counts as a success.
ThumbnailOkAny(response) == TRUE

\* Line 139: response.ok
ThumbnailOk(response) == response = "ok"

\* Lines 33-68 and 78-83: ask for path, title and description and call
\* uploadVideo with them.
Prompt ==
    /\ pc = "prompt"
    /\ \E details \in ScriptDetails : videoDetails' = details
    /\ pc' = "upload"
    /\ ev' = "prompted"
    /\ UNCHANGED <<consentHist, defaults, detailsObj, fileSize, bytesRead,
                   progress, storeVars, failure, sessVars, consentVars, pollVars>>

\* uploadVideo, lines 202-204, createDetailsObject, lines 193-200, and upload,
\* lines 76-90: merge the metadata, read the file size and issue the insert
\* request through #youTubeAPI.  Reading the defaults or the file size may
\* throw; reading a property of an unset #youTubeAPI throws a TypeError that
\* upload logs and rethrows.
UploadStart ==
    /\ pc = "upload"
    /\ \/ /\ pc' = "failed"
          /\ failure' = "defaults_error"
          /\ ev' = "defaults_unreadable"
          /\ UNCHANGED <<defaults, detailsObj, fileSize, insertCalls>>
       \/ \E doc \in DefaultsFiles :
            /\ defaults' = doc
            /\ detailsObj' = CreateDetailsObject(doc, videoDetails)
            /\ \/ /\ pc' = "failed"
                  /\ failure' = "stat_error"
                  /\ ev' = "stat_failed"
                  /\ UNCHANGED <<fileSize, insertCalls>>
               \/ \E size \in 0..MaxFileSize :
                    /\ fileSize' = size
                    /\ IF ~youTubeAPI
                         THEN /\ pc' = "failed"
                              /\ failure' = "TypeError"
                              /\ ev' = "insert_no_handle"
                              /\ UNCHANGED insertCalls
                         ELSE /\ insertCalls' = insertCalls + 1
                              /\ pc' = "uploading"
                              /\ ev' = "insert_issued"
                              /\ UNCHANGED failure
    /\ UNCHANGED <<consentHist, videoDetails, bytesRead, progress, storeVars,
                   sessVars, consentVars, id, timeLeftMs, curWait, prevWait,
                   videoResp, iter, polls, spinner, cancels, sawSucceeded,
                   thumbGetOk, thumbDone, listCalls, getCalls, thumbQueries>>

\* onUploadProgress, lines 92-102: an event with the bytes read so far; the
\* percentage is computed and written.
OnUploadProgress ==
    /\ pc = "uploading"
    /\ \E bytes \in bytesRead..fileSize :
         /\ bytes > bytesRead \/ progress.kind = "none"
         /\ bytesRead' = bytes
         /\ progress' = Progress(bytes, fileSize)
    /\ ev' = "progress_written"
    /\ UNCHANGED <<consentHist, videoDetails, defaults, detailsObj, fileSize,
                   pc, storeVars, failure, sessVars, consentVars, pollVars>>

\* Lines 106-109 without the throw: the error is logged and upload returns.
AfterInsertErrorSwallowed == "processing"

\* upload, lines 106-109: the error of the insert request is logged and
\* rethrown, out of upload and of uploadVideo.
AfterInsertError == "failed"

\* upload, lines 79-109, and uploadVideo, lines 204-207: the insert request
\* completes with an id, or fails.
Upload ==
    /\ pc = "uploading"
    /\ \/ \E v \in Ids :
            /\ id' = v
            /\ pc' = "processing"
            /\ ev' = "inserted"
            /\ UNCHANGED failure
       \/ /\ pc' = AfterInsertError
          /\ failure' = "insert_error"
          /\ ev' = "insert_failed"
          /\ UNCHANGED id
    /\ fileSize' = 0 /\ bytesRead' = 0 /\ progress' = NoProgress
    /\ UNCHANGED <<consentHist, videoDetails, defaults, detailsObj, storeVars,
                   sessVars, consentVars, timeLeftMs, curWait, prevWait,
                   videoResp, iter, polls, spinner, cancels, sawSucceeded,
                   thumbGetOk, thumbDone, listCalls, getCalls, insertCalls,
                   thumbQueries>>

\* Lines 185-186 in the other order: the thumbnail loop is run first.
FirstLoopThumbnail == "thumb_wait"

\* processing, lines 185-186: checkVideoProcessing is awaited first, and
\* checkThumbnailProcessing is called once it has returned.
FirstLoop == "video_wait"

\* processing(id), lines 119 and 184-185: start the spinner and call
\* checkVideoProcessing with the default interval.
Processing ==
    /\ pc = "processing"
    /\ spinner' = "running"
    /\ timeLeftMs' = BindParameter(<<Num(DefaultTimeLeftMs)>>)
    /\ pc' = FirstLoop
    /\ ev' = "spinner_started"
    /\ UNCHANGED <<thumbQueries, consentHist, uploadVars, storeVars, failure, sessVars, consentVars, id, curWait,
                   prevWait, videoResp, iter, polls, cancels, sawSucceeded,
                   thumbGetOk, thumbDone, listCalls, getCalls, insertCalls>>

\* checkVideoProcessing, line 159: wait timeLeftMs.
CheckVideoProcessingWait ==
    /\ pc = "video_wait"
    /\ polls < MaxPolls
    /\ polls' = polls + 1
    /\ iter' = iter + 1
    /\ prevWait' = curWait
    /\ curWait' = TimerDelay(timeLeftMs)
    /\ pc' = "video_query"
    /\ ev' = "video_waited"
    /\ UNCHANGED <<thumbQueries, consentHist, uploadVars, storeVars, failure, sessVars, consentVars, id, timeLeftMs,
                   videoResp, spinner, cancels, sawSucceeded, thumbGetOk,
                   thumbDone, listCalls, getCalls, insertCalls>>

\* checkVideoProcessing, lines 162-180: query the status; return on
\* 'succeeded', otherwise call checkVideoProcessing again.  A failed request
\* throws out of the loop, of processing and of uploadVideo.
CheckVideoProcessingQuery ==
    /\ pc = "video_query"
    /\ listCalls' = listCalls + 1
    /\ \/ /\ pc' = "failed"
          /\ failure' = "video_list_error"
          /\ ev' = "video_list_error"
          /\ UNCHANGED <<videoResp, sawSucceeded, timeLeftMs>>
       \/ \E video \in VideoResponses :
            /\ videoResp' = video
            /\ ev' = "video_response"
            /\ UNCHANGED failure
            /\ IF VideoSucceeded(video)
                 THEN /\ sawSucceeded' = (sawSucceeded \/ video.status = "succeeded")
                      /\ pc' = "thumb_wait"
                      /\ UNCHANGED timeLeftMs
                 ELSE /\ timeLeftMs' = BindParameter(RecursiveCallArgs(video, timeLeftMs))
                      /\ pc' = "video_wait"
                      /\ UNCHANGED sawSucceeded
    /\ UNCHANGED <<thumbQueries, consentHist, uploadVars, storeVars, sessVars, consentVars, id, curWait, prevWait,
                   iter, polls, spinner, cancels, thumbGetOk, thumbDone,
                   getCalls, insertCalls>>

\* checkThumbnailProcessing, line 126: wait 5000 ms.
CheckThumbnailProcessingWait ==
    /\ pc = "thumb_wait"
    /\ polls < MaxPolls
    /\ polls' = polls + 1
    /\ pc' = "thumb_query"
    /\ ev' = "thumb_waited"
    /\ UNCHANGED <<thumbQueries, consentHist, uploadVars, storeVars, failure, sessVars, consentVars, id, timeLeftMs,
                   curWait, prevWait, videoResp, iter, spinner, cancels,
                   sawSucceeded, thumbGetOk, thumbDone, listCalls, getCalls,
                   insertCalls>>

\* checkThumbnailProcessing, lines 128-135 and 150-151: query the status; with
\* no high-resolution thumbnail URL in the response the function returns.
CheckThumbnailProcessingQuery ==
    /\ pc = "thumb_query"
    /\ listCalls' = listCalls + 1
    /\ thumbQueries' = thumbQueries + 1
    /\ \/ /\ pc' = "failed"
          /\ failure' = "thumb_list_error"
          /\ ev' = "thumb_list_error"
          /\ UNCHANGED thumbDone
       \/ \E hasURL \in BOOLEAN :
            /\ UNCHANGED failure
            /\ IF hasURL
                 THEN /\ pc' = "thumb_get"
                      /\ ev' = "thumb_url"
                      /\ UNCHANGED thumbDone
                 ELSE /\ pc' = "poll_done"
                      /\ ev' = "thumb_no_url"
                      /\ thumbDone' = TRUE
    /\ UNCHANGED <<consentHist, uploadVars, storeVars, sessVars, consentVars, id, timeLeftMs, curWait,
                   prevWait, videoResp, iter, polls, spinner, cancels,
                   sawSucceeded, thumbGetOk, getCalls, insertCalls>>

\* Lines 136-148 without the catch: an exception of the GET leaves the loop.
AfterFetchUncaught(response) ==
    IF response = "threw" THEN "failed"
    ELSE IF ThumbnailOk(response) THEN "poll_done"
    ELSE "thumb_wait"

\* checkThumbnailProcessing, lines 136-148: where the function goes after the
\* GET: it returns on a success response, and calls itself again on any other
\* response and on an exception (caught at line 145).
AfterFetch(response) ==
    IF response = "threw" THEN "thumb_wait"
    ELSE IF ThumbnailOk(response) THEN "poll_done"
    ELSE "thumb_wait"

\* checkThumbnailProcessing, lines 136-148: GET the thumbnail URL.
CheckThumbnailProcessingFetch ==
    /\ pc = "thumb_get"
    /\ getCalls' = getCalls + 1
    /\ \E response \in {"ok", "not_ok", "threw"} :
         /\ ev' = IF response = "ok" THEN "thumb_get_ok"
                  ELSE IF response = "not_ok" THEN "thumb_get_not_ok"
                  ELSE "thumb_get_error"
         /\ pc' = AfterFetch(response)
         /\ thumbDone' = (AfterFetch(response) = "poll_done")
         /\ thumbGetOk' = (thumbGetOk \/ response = "ok")
    /\ UNCHANGED <<thumbQueries, consentHist, uploadVars, storeVars, failure, sessVars, consentVars, id, timeLeftMs,
                   curWait, prevWait, videoResp, iter, polls, spinner, cancels,
                   sawSucceeded, listCalls, insertCalls>>

\* processing, lines 188-189, with the function loadingText returned
\* (utility.js lines 27-30), then uploadVideo, lines 208-210: return id.
CancelAnimation ==
    /\ pc = "poll_done"
    /\ spinner' = "cancelled"
    /\ cancels' = cancels + 1
    /\ pc' = "returned"
    /\ ev' = "id_returned"
    /\ UNCHANGED <<thumbQueries, consentHist, uploadVars, storeVars, failure, sessVars, consentVars, id, timeLeftMs,
                   curWait, prevWait, videoResp, iter, polls, sawSucceeded,
                   thumbGetOk, thumbDone, listCalls, getCalls, insertCalls>>

\* Lines 86-88: print the link and copy it to the clipboard.
PrintLink ==
    /\ pc = "returned"
    /\ pc' = "done"
    /\ ev' = "link_printed"
    /\ UNCHANGED <<consentHist, uploadVars, storeVars, failure, sessVars, consentVars, pollVars>>

\* The process has ended; the program is started again.  The store stays, the
\* port is released, everything else starts afresh.
NextRun ==
    /\ pc \in Terminal
    /\ run < MaxRuns
    /\ run' = run + 1
    /\ prevSaved' = savedThisRun
    /\ ev' = "start"
    /\ ProgramStarted
    /\ UNCHANGED <<caseSensitive, store>>

Next ==
    \/ GetPassword
    \/ InitBegin
    \/ IsValidResolved
    \/ Authorize
    \/ DoOAuth
    \/ CallbackRequest
    \/ GetAuthTokenSettled
    \/ RedoConsent
    \/ GetToken
    \/ ValidateScopes
    \/ AuthorizeFinish
    \/ SetPassword
    \/ Prompt
    \/ UploadStart
    \/ OnUploadProgress
    \/ Upload
    \/ Processing
    \/ CheckVideoProcessingWait
    \/ CheckVideoProcessingQuery
    \/ CheckThumbnailProcessingWait
    \/ CheckThumbnailProcessingQuery
    \/ CheckThumbnailProcessingFetch
    \/ CancelAnimation
    \/ PrintLink
    \/ NextRun

Spec == Init /\ [][Next]_vars

(* createDetailsObject on its own: the defaults document and the caller's
   document are any two documents over Keys, each key of each section present
   or not.  A value stands for a scalar or for a nested object, which the
   spread copies as a whole. *)
MergeInit ==
    /\ caseSensitive = TRUE
    /\ store = [k \in StoreKeys |-> NULL]
    /\ run = 1
    /\ prevSaved = NULL
    /\ ev = "none"
    /\ FieldsStart
    /\ pc = "merge"
    /\ defaults \in Documents
    /\ videoDetails \in Documents
    /\ detailsObj = NoDocument

\* createDetailsObject(videoDetails), lines 193-200, over the defaults read
MergeApply ==
    /\ pc = "merge"
    /\ detailsObj' = CreateDetailsObject(defaults, videoDetails)
    /\ pc' = "merged"
    /\ ev' = "merged"
    /\ UNCHANGED <<consentHist, videoDetails, defaults, fileSize, bytesRead,
                   progress, storeVars, failure, sessVars, consentVars, pollVars>>

\* createDetailsObject(videoDetails), lines 193-200, over a defaults document
\* that is the result of the merge before
MergeAgain ==
    /\ pc = "merged"
    /\ detailsObj' = CreateDetailsObject(detailsObj, videoDetails)
    /\ pc' = "merged_again"
    /\ ev' = "merged_again"
    /\ UNCHANGED <<consentHist, videoDetails, defaults, fileSize, bytesRead,
                   progress, storeVars, failure, sessVars, consentVars, pollVars>>

MergeNext ==
    \/ MergeApply
    \/ MergeAgain

MergeSpec == MergeInit /\ [][MergeNext]_vars

----------------------------------------------------------------------------
(* Properties *)

\* C1: once init() has returned, the API handle uploadVideo uses
\* (#youTubeAPI) is set, whichever path init() took.
C1_HandleSetAfterInit == pc = "init_done" => youTubeAPI

\* C2: the refresh token the previous run wrote to the Secret Store is the
\* token this run read from it at process start.
C2_StoreRoundTrip == (pc = "init" /\ prevSaved # NULL) => readToken = prevSaved

\* C3: once init() has taken its decision, #authorize has been called 0 times
\* if a stored token was present and the silent refresh accepted it, and
\* exactly once otherwise (no token, token rejected, silent check failed).
C3_ConsentFlowCount ==
    pc \notin {"start", "init", "is_valid"} =>
        authorizeCalls =
            IF readToken # NULL /\ silentResult = "accepted" THEN 0 ELSE 1

C3_Witness ==
    pc = "init_done" /\ silentResult = "network_error" /\ authorizeCalls = 1

\* C4: uploadVideo has returned the id only if a status query reported
\* 'succeeded' and a GET of the thumbnail URL returned a success response.
C4_IdOnlyWhenReady == pc = "returned" => (sawSucceeded /\ thumbGetOk)

\* C5: a status query of the video-status loop that gets a response ends the
\* loop exactly when the response reports 'succeeded'; any other response,
\* one with no video item included, starts another wait-and-query iteration.
C5_VideoLoopEndsOnSucceeded ==
    [][(pc = "video_query" /\ ev' = "video_response") =>
          /\ pc' \in {"thumb_wait", "video_wait"}
          /\ pc' = "thumb_wait" <=>
                (videoResp'.item /\ videoResp'.status = "succeeded")]_vars

C5_Witness ==
    pc = "thumb_wait" /\ iter = 3 /\ videoResp.status = "succeeded"

\* C6: the wait before the first status query is 3000 ms; the wait before
\* each later one is the timeLeftMs of the preceding response if it has one,
\* otherwise the wait of the preceding iteration.
C6_WaitIntervals ==
    pc = "video_query" =>
        curWait = IF iter = 1 THEN DefaultTimeLeftMs
                  ELSE IF videoResp.hasTimeLeft THEN videoResp.timeLeft
                  ELSE prevWait

\* C7 (as stated): a failed request during polling is followed by another
\* iteration of its loop and never ends the run.
C7_TransportErrorsRetried ==
    /\ ev = "video_list_error" => pc = "video_wait"
    /\ ev \in {"thumb_list_error", "thumb_get_error"} => pc = "thumb_wait"
    /\ failure \notin {"video_list_error", "thumb_list_error"}

\* C7 (amended): a failed thumbnail GET is followed by another iteration of
\* the thumbnail loop and does not end the run; a failed status query, in
\* either loop, ends the run with that error.
C7_FetchErrorRetriedListErrorFatal ==
    /\ ev = "thumb_get_error" => (pc = "thumb_wait" /\ failure = NULL)
    /\ ev = "video_list_error" => (pc = "failed" /\ failure = "video_list_error")
    /\ ev = "thumb_list_error" => (pc = "failed" /\ failure = "thumb_list_error")

C7_Witness == ev = "thumb_get_error" /\ pc = "thumb_wait" /\ getCalls = 1

\* C8: in the thumbnail loop a GET answered with a non-success response starts
\* another iteration, a GET answered with a success response ends the loop,
\* and once the loop has ended no status query or GET is made.
C8_ThumbnailLoop ==
    [][/\ ev' = "thumb_get_not_ok" => (pc' = "thumb_wait" /\ ~thumbDone')
       /\ ev' = "thumb_get_ok" => (pc' = "poll_done" /\ thumbDone')
       /\ (thumbDone /\ thumbDone') =>
              (listCalls' = listCalls /\ getCalls' = getCalls)]_vars

C8_Witness == pc = "returned" /\ thumbGetOk /\ getCalls = 2

\* C9: when the tokeninfo lookup succeeded, doOAuth has returned tokens only
\* for a grant that contains both required scopes.
C9_DoneOnlyWithBothScopes ==
    (pc = "authorize_finish" /\ tokeninfo = "ok") =>
        RequiredScopes \subseteq grantScopes

\* C10: once the callback wait has ended and the flow has gone on, no
\* listener of this run is bound to the port, so no bind finds it taken.
C10_ListenerClosedAfterWait ==
    /\ (promise \in {"code", "error", "threw"} /\ pc # "await_callback") =>
           ~serverListening
    /\ ev # "bind_failed"

C12_InsertFailureAborts ==
    failure = "insert_error" =>
        /\ pc = "failed"
        /\ insertCalls = 1
        /\ listCalls = 0 /\ getCalls = 0 /\ thumbQueries = 0
        /\ id = NULL
        /\ spinner = "off"

C12_Witness ==
    /\ failure = "insert_error" /\ ev = "insert_failed"
    /\ insertCalls = 1 /\ pc = "failed"

\* C13: in each of the sections snippet and status, a key the caller supplies
\* has the caller's value in the merge result, a key only the defaults
\* document has keeps its default value, a key neither has is absent, and
\* merging the same document over the result again leaves the result as it is.
C13_OverrideWinsIdempotent ==
    [][/\ pc = "merge" =>
            \A sec \in {"snippet", "status"} : \A k \in Keys :
                detailsObj'[sec][k] =
                    IF videoDetails[sec][k] # ABSENT
                      THEN videoDetails[sec][k]
                      ELSE defaults[sec][k]
       /\ pc = "merged" => detailsObj' = detailsObj]_vars

C13_Witness ==
    /\ pc = "merged_again"
    /\ videoDetails.snippet = [k \in Keys |-> IF k = "title" THEN "v1" ELSE ABSENT]
    /\ defaults.snippet = [k \in Keys |-> "v2"]
    /\ videoDetails.status = NoSection
    /\ defaults.status = [k \in Keys |-> IF k = "title" THEN ABSENT ELSE "v1"]
    /\ detailsObj.snippet = [k \in Keys |-> IF k = "title" THEN "v1" ELSE "v2"]
    /\ detailsObj.status = defaults.status

\* C14: once a bound listener has captured an outcome, the outcome is a code
\* or an error, the request that decided it was answered with the
\* confirmation or the cancellation page, and the listener has shut down.
C14_OneOutcomePerBind ==
    promise \notin {"none", "pending"} =>
        /\ promise \in {"code", "error"}
        /\ responded = (IF promise = "code" THEN "successful" ELSE "canceled")
        /\ ~serverListening

\* C15: an exchange whose looked-up scope list has fewer than 2 entries is
\* followed by the re-prompt and by one new doOAuth round, and by nothing
\* else: the rounds started are the first one, one for each such exchange and
\* one for each rejected callback wait.  The tokens #authorize receives are
\* those of the last exchange, whose scope validation did not fail.
C15_OneMoreRoundPerShortGrant ==
    [][/\ (pc = "validate_scopes" /\ tokeninfo' = "ok"
             /\ Len(Split(ScopeField(grantScopes))) < 2) =>
              (/\ pc' = "redo_consent" /\ rounds' = rounds
               /\ exchangeLog'[Len(exchangeLog')].validation = "too_few")
       /\ (pc = "redo_consent" /\ redoCause = "too_few_scopes") =>
              (pc' = "do_oauth" /\ rounds' = rounds)
       /\ (pc = "do_oauth" /\ redoCause = "too_few_scopes") =>
              (pc' = "await_callback" /\ rounds' = rounds + 1
               /\ promise' = "pending")
       /\ LET short == Cardinality({i \in 1..Len(exchangeLog') :
                                       exchangeLog'[i].validation = "too_few"})
              owed  == authorizeCalls' + short + rejects'
          IN  rounds' = IF pc' \in {"authorize", "do_oauth", "redo_consent"}
                          THEN owed - 1 ELSE owed
       /\ pc = "authorize_finish" =>
              (/\ exchangeLog # <<>>
               /\ exchangeLog[Len(exchangeLog)].validation \in {"passed", "skipped"}
               /\ refreshToken' = exchangeLog[Len(exchangeLog)].tokens
               /\ credentials' = exchangeLog[Len(exchangeLog)].tokens)]_vars

C15_Witness ==
    /\ pc = "init_done" /\ rounds = 2 /\ rejects = 0
    /\ Len(exchangeLog) = 2
    /\ exchangeLog[1].validation = "too_few"
    /\ exchangeLog[2].validation = "passed"
    /\ exchangeLog[1].tokens # exchangeLog[2].tokens
    /\ refreshToken = exchangeLog[2].tokens

\* C16: when the tokeninfo lookup of scope validation fails with a network
\* error, doOAuth returns the tokens of the exchange just made: no failure, no
\* re-prompt and no new round, and #authorize sets the refresh token and the
\* credentials from those tokens, as after a validation that passed.
C16_ValidationSoftFail ==
    [][/\ (pc = "validate_scopes" /\ tokeninfo' = "network_error") =>
              (/\ pc' = "authorize_finish"
               /\ failure' = NULL
               /\ rounds' = rounds
               /\ tokens' = tokens
               /\ exchangeLog'[Len(exchangeLog')].tokens = tokens)
       /\ (pc = "authorize_finish" /\ tokeninfo = "network_error") =>
              (/\ pc' = "init_done"
               /\ failure' = NULL
               /\ refreshToken' = tokens
               /\ credentials' = tokens)]_vars

C16_Witness ==
    /\ pc = "init_done" /\ tokeninfo = "network_error"
    /\ Cardinality(grantScopes) < 2
    /\ refreshToken = tokens /\ failure = NULL /\ rounds = 1

\* C17: when getToken fails, in the first round or in a later one, the run has
\* ended with that error: no round was started after the failing one, the
\* refresh token is still the one the constructor was given, neither API
\* handle is set and nothing was saved.
C17_ExchangeFailureFatal ==
    failure = "getToken_error" =>
        /\ pc = "failed"
        /\ rounds = 1 + Len(exchangeLog) + rejects
        /\ \A i \in 1..Len(exchangeLog) : exchangeLog[i].validation = "too_few"
        /\ refreshToken = readToken
        /\ ~youTubeAPI /\ ~youtubeApi
        /\ savedThisRun = NULL

C17_Witness ==
    /\ failure = "getToken_error" /\ ev = "exchange_failed"
    /\ rounds = 2 /\ Len(exchangeLog) = 1 /\ rejects = 0
    /\ pc = "failed"

\* C18: the spinner is cancelled at most once and only after both loops have
\* ended, and whenever the poller has ended, by returning or by an error of a
\* status query, the spinner has been cancelled once and is not running.
C18_SpinnerCancelledOnce ==
    /\ cancels <= 1
    /\ spinner = "cancelled" => pc \in {"returned", "done"}
    /\ (\/ pc \in {"returned", "done"}
        \/ failure \in {"video_list_error", "thumb_list_error"}) =>
           (spinner = "cancelled" /\ cancels = 1)

\* C19: uploadVideo is entered only with the consent flow over (its listener
\* closed, its wait settled and, when it was invoked, its last exchange
\* accepted); a status query of the video-status loop is made only with the
\* insert request completed and its id held, and before any query of the
\* thumbnail loop; a query of the thumbnail loop is made only after the
\* video-status loop has returned; and no step leads from the thumbnail loop
\* back into the video-status loop.
C19_PhaseOrder ==
    [][/\ (pc = "upload" \/ insertCalls' > insertCalls) =>
              (/\ ~serverListening /\ promise # "pending"
               /\ authorizeCalls > 0 =>
                     (/\ exchangeLog # <<>>
                      /\ exchangeLog[Len(exchangeLog)].validation \in {"passed", "skipped"}
                      /\ refreshToken = exchangeLog[Len(exchangeLog)].tokens))
       /\ (pc = "video_query" /\ listCalls' > listCalls) =>
              (insertCalls = 1 /\ id # NULL /\ thumbQueries = 0)
       /\ thumbQueries' > thumbQueries =>
              (/\ pc = "thumb_query" /\ sawSucceeded
               /\ insertCalls = 1 /\ id # NULL)
       /\ pc \in {"thumb_wait", "thumb_query", "thumb_get"} =>
              pc' \notin {"video_wait", "video_query"}]_vars

C19_Witness ==
    /\ pc = "returned" /\ insertCalls = 1 /\ id # NULL
    /\ thumbQueries = 2 /\ listCalls = 4 /\ sawSucceeded

\* C20: whenever a progress value has been reported with all bytes of the
\* file read, for any file size including 0, the value reported is 100.
C20_CompleteReports100 ==
    (progress.kind # "none" /\ bytesRead = fileSize) => progress = Finite(100)

====
